---- MODULE Spec2Model ----
(***************************************************************************)
(* A model of the pen journal: the markdown entry codec                    *)
(* (src/pen/serializing.py), the free-text entry parser                    *)
(* (src/pen/parsing.py) and the journal store with its commands            *)
(* (src/pen/journal.py, src/pen/utils.py).                                 *)
(*                                                                         *)
(* Text is modelled as what it is: a sequence of one-character strings.    *)
(* A date is a record of its calendar fields, seconds included, and is     *)
(* written and parsed through the sixteen characters of "%Y-%m-%d %H:%M".  *)
(* A failed call returns a record with an `error` field in place of its    *)
(* result.                                                                 *)
(***************************************************************************)
EXTENDS Integers, Sequences, FiniteSets, TLC

VARIABLES
    path_exists,    \* Journal.path exists on disk
    first_line,     \* first line of the journal file, without its newline
    journal_file,   \* the rest of the journal file, as Journal.read reads it
    last            \* the command that ran last, until it returns: its inputs, the
                    \* journal text it found and its outcome

vars == <<path_exists, first_line, journal_file, last>>

----------------------------------------------------------------------------
(* Bounds of the model. *)

\* the journal holds at most this many entries (Add and Compose stop there)
MaxEntries == 3
\* last_n ranges over None and -1 .. MaxLastN
MaxLastN == 2
\* serialize is given at most this many entries at once
MaxSerialized == 2
\* the longest argument list handed to prepare_args
MaxArgs == 3
\* the most answers typed at one prompt
MaxTyped == 3

----------------------------------------------------------------------------
(* Text *)

NL == "\n"
SP == " "
Whitespace == {SP, NL}

RECURSIVE Join(_, _)
\* sep.join(ss)
Join(sep, ss) ==
    IF ss = <<>> THEN <<>>
    ELSE IF Len(ss) = 1 THEN ss[1]
    ELSE ss[1] \o sep \o Join(sep, Tail(ss))

\* list(xs): the elements, all of them evaluated
list(xs) == SubSeq(xs, 1, Len(xs))

Reverse(s) == list([i \in 1..Len(s) |-> s[Len(s) + 1 - i]])

Min(a, b) == IF a < b THEN a ELSE b
Max(a, b) == IF a < b THEN b ELSE a

\* s[i:] of Python, i counted from 0
From(s, i) == SubSeq(s, i + 1, Len(s))
\* s[:i] of Python, 0 <= i
Upto(s, i) == SubSeq(s, 1, Min(i, Len(s)))

RECURSIVE RunEnd(_, _, _)
\* the end of the run of characters of S that starts at position i (from 1): the
\* first position at or after i that holds no character of S
RunEnd(s, i, S) ==
    IF i <= Len(s) /\ s[i] \in S THEN RunEnd(s, i + 1, S) ELSE i

RECURSIVE RunStart(_, _, _)
\* the start of the run of characters of S that ends at position i: the last
\* position at or before i that holds no character of S
RunStart(s, i, S) ==
    IF i >= 1 /\ s[i] \in S THEN RunStart(s, i - 1, S) ELSE i

\* str.lstrip / str.rstrip / str.strip
lstrip(s) == SubSeq(s, RunEnd(s, 1, Whitespace), Len(s))
rstrip(s) == SubSeq(s, 1, RunStart(s, Len(s), Whitespace))
strip(s) == rstrip(lstrip(s))

\* s[i:i+len(p)] == p, i counted from 1
StartsAt(s, i, p) ==
    /\ i + Len(p) - 1 <= Len(s)
    /\ \A k \in 1..Len(p) : s[i + k - 1] = p[k]

\* str.find(p): the first position (from 0) of p in s, -1 when there is none
find(s, p) ==
    LET First(hits) ==
            IF hits = {} THEN -1
            ELSE (CHOOSE i \in hits : \A j \in hits : i <= j) - 1
    IN  First({i \in 1..Len(s) : StartsAt(s, i, p)})

RECURSIVE SortedSeq(_)
\* the elements of a finite set of integers, ascending
SortedSeq(S) ==
    IF S = {} THEN <<>>
    ELSE LET Smallest(m) == <<m>> \o SortedSeq(S \ {m})
         IN  Smallest(CHOOSE x \in S : \A y \in S : x <= y)

\* s.split("\n")
SplitLines(s) ==
    LET CutAt(nls, n) ==
            list([k \in 1..(n + 1) |->
                SubSeq(s,
                       IF k = 1 THEN 1 ELSE nls[k - 1] + 1,
                       IF k = n + 1 THEN Len(s) ELSE nls[k] - 1)])
        Newlines(nls) == CutAt(nls, Len(nls))
    IN  Newlines(SortedSeq({i \in 1..Len(s) : s[i] = NL}))

\* the number of '#' characters a line starts with
LeadingHashes(line) == RunEnd(line, 1, {"#"}) - 1

----------------------------------------------------------------------------
(* Dates: datetime, strftime and strptime with SERIALIZED_DATE_FORMAT *)

DigitChars == <<"0", "1", "2", "3", "4", "5", "6", "7", "8", "9">>
IsDigit(c) == \E n \in 1..10 : DigitChars[n] = c
DigitVal(c) == (CHOOSE n \in 1..10 : DigitChars[n] = c) - 1
Pad2(n) == <<DigitChars[((n \div 10) % 10) + 1], DigitChars[(n % 10) + 1]>>
Pad4(n) == Pad2(n \div 100) \o Pad2(n % 100)

\* datetime(year, month, day, hour, minute, second)
DateTime(y, mo, d, h, mi, s) ==
    [year |-> y, month |-> mo, day |-> d, hour |-> h, minute |-> mi, second |-> s]

\* the fields of a date, most significant first: datetime compares by them
DateKey(date) ==
    <<date.year, date.month, date.day, date.hour, date.minute, date.second>>

RECURSIVE KeyLess(_, _)
KeyLess(a, b) ==
    /\ a # <<>>
    /\ \/ Head(a) < Head(b)
       \/ Head(a) = Head(b) /\ KeyLess(Tail(a), Tail(b))

\* datetime.__lt__
DateLess(a, b) == KeyLess(DateKey(a), DateKey(b))

\* what "%Y-%m-%d %H:%M" keeps of a date: the date at minute precision
Minute(date) == [date EXCEPT !.second = 0]

IsLeap(y) == (y % 4 = 0 /\ y % 100 # 0) \/ y % 400 = 0
DaysInMonth(y, mo) ==
    IF mo = 2 THEN (IF IsLeap(y) THEN 29 ELSE 28)
    ELSE IF mo \in {4, 6, 9, 11} THEN 30 ELSE 31

\* date.strftime(SERIALIZED_DATE_FORMAT)
strftime(date) ==
    Pad4(date.year) \o <<"-">> \o Pad2(date.month) \o <<"-">> \o Pad2(date.day)
        \o <<SP>> \o Pad2(date.hour) \o <<":">> \o Pad2(date.minute)

NoDate == [error |-> "ValueError"]

\* a numeric field of strptime at position i (from 1): one or two digits, as many
\* as there are; [val, next] or val = -1
NumField(s, i) ==
    IF i > Len(s) \/ ~IsDigit(s[i]) THEN [val |-> -1, next |-> i]
    ELSE IF i + 1 <= Len(s) /\ IsDigit(s[i + 1])
         THEN [val |-> 10 * DigitVal(s[i]) + DigitVal(s[i + 1]), next |-> i + 2]
         ELSE [val |-> DigitVal(s[i]), next |-> i + 1]

\* datetime.strptime(s, SERIALIZED_DATE_FORMAT): four digits of year, then month,
\* day, hour and minute of one or two digits, separated by '-', '-', whitespace
\* and ':'; every field in its range and nothing left over
strptime(s) ==
    IF ~(Len(s) >= 5 /\ (\A i \in 1..4 : IsDigit(s[i])) /\ s[5] = "-") THEN NoDate
    ELSE
    LET Fields(y, mo, d, t, h, mi) ==
            IF /\ mo.val \in 1..12
               /\ mo.next <= Len(s) /\ s[mo.next] = "-"
               /\ d.val \in 1..DaysInMonth(y, mo.val)
               /\ t > d.next
               /\ h.val \in 0..23
               /\ h.next <= Len(s) /\ s[h.next] = ":"
               /\ mi.val \in 0..59
               /\ mi.next = Len(s) + 1
               /\ y >= 1
            THEN DateTime(y, mo.val, d.val, h.val, mi.val, 0)
            ELSE NoDate
        \* the fields are read one after the other, each from where the one
        \* before it ended
        ToHour(y, mo, d, t, h) == Fields(y, mo, d, t, h, NumField(s, h.next + 1))
        ToSpace(y, mo, d, t) == ToHour(y, mo, d, t, NumField(s, t))
        ToDay(y, mo, d) == ToSpace(y, mo, d, RunEnd(s, d.next, Whitespace))
        ToMonth(y, mo) == ToDay(y, mo, NumField(s, mo.next + 1))
    IN  ToMonth(1000 * DigitVal(s[1]) + 100 * DigitVal(s[2])
                    + 10 * DigitVal(s[3]) + DigitVal(s[4]),
                NumField(s, 6))

----------------------------------------------------------------------------
(* Entry and the markdown codec: MarkdownSerializer *)

Entry(date, title, body) == [date |-> date, title |-> title, body |-> body]

SerializationError == [error |-> "SerializationError"]
IsError(x) == "error" \in DOMAIN x

entry_marker == <<"#", "#", SP>>

\* no escape: the body is written as it is
EscapeNothing(body) == body

\* an escape that puts one '#' in front of a line that starts with '#'
EscapeWithOne(body) ==
    LET Escaped(lines) ==
            Join(<<NL>>, [i \in 1..Len(lines) |->
                IF LeadingHashes(lines[i]) >= 1
                THEN <<"#">> \o lines[i] ELSE lines[i]])
    IN  Escaped(SplitLines(body))

\* re.sub(r"^#", "###", body, flags=re.MULTILINE)
EscapeBody(body) ==
    LET Escaped(lines) ==
            Join(<<NL>>, [i \in 1..Len(lines) |->
                IF LeadingHashes(lines[i]) >= 1
                THEN <<"#", "#">> \o lines[i] ELSE lines[i]])
    IN  Escaped(SplitLines(body))

\* re.sub(r"^##(#+)", r"\g<1>", body, flags=re.MULTILINE)
UnescapeBody(body) ==
    LET Unescaped(lines) ==
            Join(<<NL>>, [i \in 1..Len(lines) |->
                IF LeadingHashes(lines[i]) >= 3
                THEN From(lines[i], 2) ELSE lines[i]])
    IN  Unescaped(SplitLines(body))

serialize_entry(entry) ==
    LET head == entry_marker \o strftime(entry.date) \o <<SP, "-", SP>> \o entry.title
    IN  (IF entry.body # <<>> THEN head \o <<NL>> \o EscapeBody(entry.body) ELSE head)
            \o <<NL>>

\* the positions at which a line of the text starts with the entry marker
MarkerPositions(text) ==
    {i \in 1..Len(text) :
        /\ i = 1 \/ text[i - 1] = NL
        /\ StartsAt(text, i, entry_marker)}

\* re.split(r"^## ", journal_text, flags=re.MULTILINE)[1:], the marker re-added
split_entries(journal_text) ==
    LET SplitAt(ps) ==
            list([k \in 1..Len(ps) |->
                SubSeq(journal_text, ps[k],
                       IF k = Len(ps) THEN Len(journal_text) ELSE ps[k + 1] - 1)])
    IN  SplitAt(SortedSeq(MarkerPositions(journal_text)))

\* deserialize_entry without its check of the title
DeserializeUntitled(entry_text) ==
    IF Upto(entry_text, 3) # entry_marker THEN SerializationError
    ELSE
    LET Parsed(date, title, body_lines) ==
            IF IsError(date) THEN SerializationError
            ELSE Entry(date, title, UnescapeBody(Join(<<NL>>, body_lines)))
        TitleLine(title_line, body_lines, sep) ==
            IF sep = -1 THEN SerializationError
            ELSE Parsed(strptime(Upto(title_line, sep)), From(title_line, sep + 3),
                        body_lines)
        Lines(lines) ==
            TitleLine(lines[1], Tail(lines), find(lines[1], <<SP, "-", SP>>))
    IN  Lines(SplitLines(strip(From(entry_text, 3))))

\* MarkdownSerializer.deserialize_entry(entry_text): the Entry, or the
\* SerializationError it raises
deserialize_entry(entry_text) ==
    IF Upto(entry_text, 3) # entry_marker THEN SerializationError
    ELSE
    LET \* date = strptime(date_str, ...), if not title, body
        Parsed(date, title, body_lines) ==
            IF IsError(date) THEN SerializationError
            ELSE IF title = <<>> THEN SerializationError
            ELSE Entry(date, title, UnescapeBody(Join(<<NL>>, body_lines)))
        \* date_str, title = title_line.split(" - ", 1), sep being where ' - ' is
        TitleLine(title_line, body_lines, sep) ==
            IF sep = -1 THEN SerializationError
            ELSE Parsed(strptime(Upto(title_line, sep)), From(title_line, sep + 3),
                        body_lines)
        \* title_line, *body_lines = entry_text.split("\n")
        Lines(lines) ==
            TitleLine(lines[1], Tail(lines), find(lines[1], <<SP, "-", SP>>))
    IN  Lines(SplitLines(strip(From(entry_text, 3))))

----------------------------------------------------------------------------
(* JournalSerializer *)

\* serialize without the reversal: the entries are written in the order given
SerializeInOrder(entries) ==
    Join(<<NL, NL>>, [i \in 1..Len(entries) |-> serialize_entry(entries[i])])

\* serialize: the entries come newest first and are written in reverse
serialize(entries) ==
    Join(<<NL, NL>>, [i \in 1..Len(entries) |->
        serialize_entry(Reverse(entries)[i])])

\* deserialize, before anything is consumed: the entry texts in the order in which
\* the generator will parse them
deserialize(journal_text) ==
    IF journal_text = <<>> THEN <<>>
    ELSE Reverse(split_entries(strip(journal_text)))

\* islice over a list in place of the generator: every text is parsed before the
\* first n are taken
ConsumeEager(texts, n) ==
    LET List(parsed) ==
            IF \E i \in 1..Len(parsed) : IsError(parsed[i]) THEN SerializationError
            ELSE [entries |-> Upto(parsed, n)]
    IN  List(list([i \in 1..Len(texts) |-> deserialize_entry(texts[i])]))

\* list(itertools.islice(entries, n)): the first n texts are parsed; the list of
\* the entries in a record, or the SerializationError of the first that fails
Consume(texts, n) ==
    LET List(parsed) ==
            IF \E i \in 1..Len(parsed) : IsError(parsed[i]) THEN SerializationError
            ELSE [entries |-> parsed]
    IN  List(list([i \in 1..Min(n, Len(texts)) |-> deserialize_entry(texts[i])]))

\* list(entries): all of them are parsed
ConsumeAll(texts) == Consume(texts, Len(texts))


----------------------------------------------------------------------------
(* Entry order, prompts and the free-text parser *)

\* Entry.__lt__. pen/entry.py is not among the sources; the order is the one the
\* specification gives for Entry: by date, ascending
EntryLess(a, b) == DateLess(a.date, b.date)

\* Optional[int]: None is the empty sequence, an integer k is <<k>>
None == <<>>
Some(k) == <<k>>

RECURSIVE ask(_, _, _)
\* ask(prompt, options, default): the answers typed, one string each, are read until
\* one of them, the default taken for a blank, is an option; "" when the answers
\* run out first (the prompt then waits for more)
ask(answers, options, default) ==
    IF answers = <<>> THEN ""
    ELSE LET answer == IF Head(answers) = "" THEN default ELSE Head(answers)
         IN  IF answer \in options THEN answer
             ELSE ask(Tail(answers), options, default)

\* yes_no that takes a blank answer for no, whatever the default
NoUnlessYes(answers, default) == ask(answers, {"y", "n"}, "n") = "y"

\* yes_no(prompt, default)
yes_no(answers, default) ==
    ask(answers, {"y", "n"}, IF default THEN "y" ELSE "n") = "y"

\* a check of the answer that accepts everything
ValidateAnything(answ, options, validator) == TRUE

\* validate(answ) inside ask: options is the set of options, empty when there are
\* none; validator is None, or the set of answers the validator accepts
validate(answ, options, validator) ==
    IF options # {} THEN answ \in options
    ELSE IF validator # None THEN answ \in validator[1]
    ELSE TRUE

Punctuation == {"?", "!", "."}

\* re.search(r"([?!.]+\s+|\n)", text).end(), -1 when nothing matches
SepEnd(text) ==
    LET MatchEnd(i) ==
            IF /\ text[i] \in Punctuation
               /\ RunEnd(text, i, Punctuation) <= Len(text)
               /\ text[RunEnd(text, i, Punctuation)] \in Whitespace
            THEN RunEnd(text, RunEnd(text, i, Punctuation), Whitespace) - 1
            ELSE IF text[i] = NL THEN i ELSE -1
        First(hits) ==
            IF hits = {} THEN -1
            ELSE MatchEnd(CHOOSE i \in hits : \A j \in hits : i <= j)
    IN  First({i \in 1..Len(text) : MatchEnd(i) # -1})

\* parse_entry(text) with no date given. `parsed` is what parse_datetime makes of
\* the text before the colon (a date, or None for "no date"), `now` is
\* datetime.now()
parse_entry(text, parsed, now) ==
    LET Dated(title, body, colon_pos, date) ==
            IF date = None THEN Entry(now, title, body)
            ELSE Entry(date[1], strip(From(title, colon_pos + 1)), body)
        Colon(title, body, colon_pos) ==
            Dated(title, body, colon_pos, IF colon_pos > 0 THEN parsed ELSE None)
        TitleBody(title, body) == Colon(title, body, find(title, <<":", SP>>))
        Sep(sep) ==
            TitleBody(IF sep # -1 THEN strip(Upto(text, sep)) ELSE strip(text),
                      IF sep # -1 THEN strip(From(text, sep)) ELSE <<>>)
    IN  Sep(SepEnd(text))

\* the title parse_entry cuts off the text: up to the end of the first separator,
\* trimmed
title_of(text) ==
    LET Sep(sep) == IF sep # -1 THEN strip(Upto(text, sep)) ELSE strip(text)
    IN  Sep(SepEnd(text))

\* the string handed to the date parser when it is cut off the title
TitlePrefix(text) ==
    LET Cut(title, colon_pos) ==
            IF colon_pos > 0 THEN Some(Upto(title, colon_pos)) ELSE None
    IN  Cut(title_of(text), find(title_of(text), <<":", SP>>))

\* colon_pos = title.find(": "); parse_datetime(text[:colon_pos]): the string
\* handed to the date parser, None when the parser is not called. colon_pos is a
\* position in the title, the slice is taken of the text.
date_string(text) ==
    LET Cut(colon_pos) ==
            IF colon_pos > 0 THEN Some(Upto(text, colon_pos)) ELSE None
    IN  Cut(find(title_of(text), <<":", SP>>))

\* parse_datetime(dt_string), a call of dateparser.parse, which is no part of the
\* program: `known` are the strings it makes a date of, and the date is Jan
parse_datetime(dt_string, known) ==
    IF dt_string \in known THEN Some([year |-> 2020, month |-> 1, day |-> 1,
                                      hour |-> 0, minute |-> 0, second |-> 0])
    ELSE None

----------------------------------------------------------------------------
(* The command line: prepare_args *)

\* parser.commands: the subcommands add_subparser registers
commands ==
    { <<"c", "o", "m", "p", "o", "s", "e">>, <<"e", "d", "i", "t">>,
      <<"l", "i", "s", "t">>, <<"d", "e", "l", "e", "t", "e">>,
      <<"r", "e", "a", "d">> }

HelpFlags == {<<"-", "h">>, <<"-", "-", "h", "e", "l", "p">>}

\* re.fullmatch(r"-(\d+)", arg)
IsDashDigits(arg) ==
    /\ Len(arg) >= 2
    /\ arg[1] = "-"
    /\ \A i \in 2..Len(arg) : IsDigit(arg[i])

RECURSIVE ReplaceDashDigits(_)
\* for i, arg in enumerate(args): args[i : i + 1] = ["-n", match[1]]. The loop
\* goes on with the digits it has just put in, which do not match, and then
\* with the arguments that follow.
ReplaceDashDigits(args) ==
    IF args = <<>> THEN <<>>
    ELSE (IF IsDashDigits(Head(args)) THEN <<(<<"-", "n">>), Tail(Head(args))>>
          ELSE <<Head(args)>>) \o ReplaceDashDigits(Tail(args))

\* the default command put in front whatever the arguments are, as _prepare_args
\* of pen/cli.py does
PrepareWithDefault(args) ==
    LET Insert(argv) ==
            IF \/ \E i \in 1..Len(argv) : argv[i] \in HelpFlags
               \/ argv # <<>> /\ argv[1] \in commands
            THEN argv
            ELSE <<(<<"c", "o", "m", "p", "o", "s", "e">>)>> \o argv
    IN  Insert(ReplaceDashDigits(args))

\* prepare_args(args, parser): the list as it is after the call
prepare_args(args) ==
    LET Insert(argv) ==
            IF \/ \E i \in 1..Len(argv) : argv[i] \in HelpFlags
               \/ argv # <<>> /\ argv[1] \in commands
            THEN argv
            ELSE IF \E i \in 1..Len(argv) : argv[i] # <<>> /\ argv[i][1] = "-"
                 THEN <<(<<"r", "e", "a", "d">>)>> \o argv
                 ELSE <<(<<"c", "o", "m", "p", "o", "s", "e">>)>> \o argv
    IN  Insert(ReplaceDashDigits(args))

----------------------------------------------------------------------------
(* Journal *)

file_type_line ==
    <<"f", "i", "l", "e", "_", "t", "y", "p", "e", ":", SP, "m", "d">>

\* entries[:last_n] of Python: the number of entries the slice holds
SliceLen(n, last_n) ==
    IF last_n = None THEN n
    ELSE IF last_n[1] >= 0 THEN Min(last_n[1], n)
    ELSE Max(n + last_n[1], 0)

\* read without the islice: all entries, whatever last_n
ReadAll(text, last_n) == ConsumeAll(deserialize(text))

\* raise SerializationError(f"Journal {self.name} at {self.path} could not be
\* read. ...") from err: the error of Journal.read, which names the journal and
\* carries the error of the serializer as its cause
JournalError(err) ==
    [error |-> "SerializationError", names |-> "journal", cause |-> err]

\* Journal.read(last_n) of a journal file with this text after its first line: the
\* list of entries in a record, or the SerializationError. The text is split
\* before the try block, the entries are parsed inside it.
read(text, last_n) ==
    LET texts == deserialize(text)
        Raised(got) == IF IsError(got) THEN JournalError(got) ELSE got
    IN  Raised(IF last_n = None \/ last_n[1] = 0 THEN ConsumeAll(texts)
               ELSE Consume(texts, IF last_n[1] < 0 THEN 0 - last_n[1]
                                   ELSE last_n[1]))

RECURSIVE bisect_right(_, _, _, _)
\* bisect.bisect_right(a, x, lo, hi), positions counted from 0
bisect_right(a, x, lo, hi) ==
    IF lo < hi
    THEN LET mid == (lo + hi) \div 2
         IN  IF EntryLess(x, a[mid + 1]) THEN bisect_right(a, x, lo, mid)
             ELSE bisect_right(a, x, mid + 1, hi)
    ELSE lo

\* bisect.insort(a, x)
insort(a, x) ==
    LET InsertAt(lo) == SubSeq(a, 1, lo) \o <<x>> \o SubSeq(a, lo + 1, Len(a))
    IN  InsertAt(bisect_right(a, x, 0, Len(a)))

\* add without the reversals: the insertion is made into the newest-first list
AddWithoutReversing(entries, entry) == insort(entries, entry)

\* the entries Journal.add(entry) hands to Journal.write, given what it read
add_entries(entries, entry) == Reverse(insort(Reverse(entries), entry))

\* entries = part: the entries outside the slice are lost
ReplaceAll(entries, last_n, part) == part

\* entries[:last_n] = part
SetSlice(entries, last_n, part) ==
    part \o SubSeq(entries, SliceLen(Len(entries), last_n) + 1, Len(entries))

\* Journal.write(entries)
Write(entries) ==
    /\ first_line' = file_type_line
    /\ journal_file' = serialize(entries)
    /\ UNCHANGED path_exists


----------------------------------------------------------------------------
(* What the user and the clock supply *)

Jan == DateTime(2020, 1, 1, 0, 0, 0)
Feb == DateTime(2020, 2, 1, 0, 0, 0)
Mar == DateTime(2020, 3, 1, 0, 0, 0)
\* a date with seconds, as datetime.now() gives it
FebNow == DateTime(2020, 2, 1, 0, 0, 30)

\* the entries handed to Journal.add: title trimmed and without newline, body
\* trimmed, as parse_entry makes them of text that has a title
JournalEntries ==
    { Entry(Jan, <<"a">>, <<>>),
      Entry(FebNow, <<"b">>, <<"#", "#", SP, "x">>),
      Entry(Mar, <<"a">>, <<>>) }

\* more of them, for the journal that is only added to
AddEntries ==
    JournalEntries \cup
    { Entry(Feb, <<"a", SP, "-", SP, "b">>, <<"x", NL, "#", "y">>),
      Entry(Mar, <<"b">>, <<"#">>) }

LastNs == {None} \cup {Some(k) : k \in (0 - 1)..MaxLastN}

\* what is typed at a prompt, one string for each time it asks
Answers == {<<"y">>, <<"n">>, <<"">>}

\* the texts the editor hands back to compose
ComposeTexts ==
    { <<>>,
      <<SP>>,
      <<NL, "b">>,
      <<"a">>,
      <<"a", ".", SP, "b">>,
      <<"t", ":", SP, "a", NL, "#", "b">> }

\* the entries the codec is tried on: any body, also one that ends in whitespace
\* or is nothing else, and a title with ' - ' in it
CodecEntries ==
    {Entry(d, t, b) :
        d \in {Jan, Mar},
        t \in {<<"a">>, <<"a", SP, "-", SP, "b">>},
        b \in { <<>>, <<"x">>, <<"#">>, <<"#", "#", SP, "x">>,
                <<"x", NL, "#", "#", "#", "y">>, <<SP, "x">>, <<"x", NL>> }}

SeqsUpTo(S, n) == UNION {[1..k -> S] : k \in 0..n}

\* entry texts nobody can read: no date, and no title
Unreadable ==
    { <<"#", "#", SP, "x", NL>>,
      entry_marker \o strftime(Jan) \o <<SP, "-", SP, NL>> }

\* journal files as they are found on disk, written by hand or by the program:
\* entry texts, readable or not, with an empty line between them
FoundJournals ==
    {Join(<<NL, NL>>, texts) :
        texts \in SeqsUpTo({serialize_entry(e) : e \in JournalEntries}
                             \cup Unreadable, MaxEntries)}

\* text in a journal file before its first entry
Prefaces == {<<"x", NL>>, <<"#", "#", "x", NL>>}

RemoveAt(s, i) == SubSeq(s, 1, i - 1) \o SubSeq(s, i + 1, Len(s))

\* the texts the editor hands back to edit, given the entries it was opened on:
\* the text as it was, with one entry removed, with all of them removed, with the
\* entries in reverse order, with the date of the newest entry changed, with a
\* line in front of the first entry, and with an entry made unreadable
EditorTexts(to_edit) ==
    LET Texts(text) ==
            {text, <<>>, serialize(Reverse(to_edit))}
            \cup {serialize(RemoveAt(to_edit, i)) : i \in 1..Len(to_edit)}
            \cup (IF to_edit = <<>> THEN {}
                  ELSE {serialize(<<[to_edit[1] EXCEPT !.date = Jan]>>
                                      \o Tail(to_edit)),
                        <<"x", NL>> \o text,
                        text \o <<NL, "#", "#", SP, "x">>})
    IN  Texts(serialize(to_edit))

----------------------------------------------------------------------------
(* The operations of Journal, as functions of the journal text and the input *)

\* Journal.add(entry): what it reads, and what it hands to Journal.write
add(text, entry) ==
    LET Got(got) ==
            IF IsError(got) THEN [status |-> "SerializationError"]
            ELSE [status |-> "ok", out |-> add_entries(got.entries, entry)]
    IN  Got(read(text, None))

\* Journal.edit(last_n): `got` is what self.read() returns, the editor hands back
\* edited_string, and `answers` are typed when edit asks whether to continue
edit(got, last_n, edited_string, answers) ==
    LET \* num_deleted = len(to_edit) - len(edited), and what follows
        Confirm(entries, to_edit, edited, num_deleted) ==
            IF num_deleted > 0 /\ ~yes_no(answers, TRUE)
            THEN [status |-> "exit 0", asked |-> TRUE,
                  given |-> to_edit, edited |-> edited]
            ELSE [status |-> "ok", asked |-> num_deleted > 0,
                  given |-> to_edit, edited |-> edited,
                  out |-> SetSlice(entries, last_n, edited)]
        \* edited = list(self.serializer.deserialize(edited_string))
        Edited(entries, to_edit, parsed) ==
            IF IsError(parsed)
            THEN [status |-> "SerializationError", asked |-> FALSE,
                  given |-> to_edit]
            ELSE Confirm(entries, to_edit, parsed.entries,
                         Len(to_edit) - Len(parsed.entries))
        \* to_edit = entries[:last_n]
        Entries(entries) ==
            Edited(entries, Upto(entries, SliceLen(Len(entries), last_n)),
                   ConsumeAll(deserialize(edited_string)))
    IN  \* entries = list(self.read())
        IF IsError(got) THEN [status |-> "SerializationError", asked |-> FALSE]
        ELSE Entries(got.entries)

RECURSIVE KeptUnlessDeclined(_, _)
\* the comprehension of delete with default=True at the prompt: a blank answer
\* deletes
KeptUnlessDeclined(entries, answers) ==
    IF entries = <<>> THEN <<>>
    ELSE (IF yes_no(Head(answers), TRUE) THEN <<>> ELSE <<Head(entries)>>)
            \o KeptUnlessDeclined(Tail(entries), Tail(answers))

RECURSIVE Kept(_, _)
\* [entry for entry in entries if not yes_no(..., default=False)], answers[i]
\* being what is typed at the prompt for entries[i]
Kept(entries, answers) ==
    IF entries = <<>> THEN <<>>
    ELSE (IF yes_no(Head(answers), FALSE) THEN <<>> ELSE <<Head(entries)>>)
            \o Kept(Tail(entries), Tail(answers))

\* Journal.delete(last_n): `got` is what self.read() returns, `answers` are typed
\* at the prompts
delete(got, last_n, answers) ==
    LET Keep(entries, asked, keep) ==
            [status |-> "ok", asked |-> asked, keep |-> keep,
             out |-> SetSlice(entries, last_n, keep)]
        Ask(entries, asked) == Keep(entries, asked, Kept(asked, answers))
    IN  IF IsError(got) THEN [status |-> "SerializationError"]
        ELSE IF got.entries = <<>> THEN [status |-> "empty"]
        ELSE Ask(got.entries, Upto(got.entries, SliceLen(Len(got.entries), last_n)))

install_min_entry_length == 1

\* compose without the check of the length: whatever the editor hands back is
\* parsed and added
ComposeUnchecked(text, entry_string, parsed, now) ==
    LET Added(entry, added) ==
            IF added.status = "ok"
            THEN [status |-> "ok", entry |-> entry, out |-> added.out]
            ELSE [status |-> added.status, entry |-> entry]
        Parsed(entry) == Added(entry, add(text, entry))
    IN  Parsed(parse_entry(entry_string, parsed, now))

\* compose: the editor hands back entry_string
compose(text, entry_string, parsed, now) ==
    IF Len(entry_string) < install_min_entry_length THEN [status |-> "exit 1"]
    ELSE LET Added(entry, added) ==
                 IF added.status = "ok"
                 THEN [status |-> "ok", entry |-> entry, out |-> added.out]
                 ELSE [status |-> added.status, entry |-> entry]
             Parsed(entry) == Added(entry, add(text, entry))
         IN  Parsed(parse_entry(entry_string, parsed, now))

----------------------------------------------------------------------------
(* The state machine: one action for each operation on the journal *)

Idle == [op |-> "none"]

Init ==
    /\ path_exists = TRUE
    /\ first_line = <<>>
    /\ journal_file = <<>>
    /\ last = Idle

\* a command starts when the one before it has returned
Start ==
    /\ last = Idle
    /\ path_exists

\* an operation that opens the journal file for writing before it has its
\* entries: the file is empty when it ends without them
WriteBeforeRead(o) ==
    IF o.status = "ok" THEN Write(o.out) ELSE Write(<<>>)

\* the operation writes what it made, or ends without writing
Effect(o) ==
    IF o.status = "ok" THEN Write(o.out)
    ELSE UNCHANGED <<path_exists, first_line, journal_file>>

\* the number of entry texts in the journal file
Count == Len(deserialize(journal_file))

Add(entry) ==
    /\ Start
    /\ Count < MaxEntries
    /\ \E o \in {add(journal_file, entry)} :
          /\ Effect(o)
          /\ last' = [op |-> "add", arg |-> entry, before |-> journal_file, o |-> o]

Read(last_n) ==
    /\ Start
    /\ UNCHANGED <<path_exists, first_line, journal_file>>
    /\ \E got \in {read(journal_file, last_n)} :
          last' = [op |-> "read", n |-> last_n, before |-> journal_file,
                   o |-> IF IsError(got) THEN [status |-> "SerializationError"]
                         ELSE [status |-> "ok", entries |-> got.entries]]

\* entries[:last_n] of the entries read from the journal: what Journal.edit opens
\* the editor on and what Journal.delete asks about
Sliced(got, last_n) ==
    IF IsError(got) THEN <<>>
    ELSE Upto(got.entries, SliceLen(Len(got.entries), last_n))

\* both commands begin with entries = list(self.read())
Edit(last_n) ==
    /\ Start
    /\ \E got \in {read(journal_file, None)} :
       \E edited_string \in EditorTexts(Sliced(got, last_n)) :
       \E asks \in {edit(got, last_n, edited_string, <<"n">>).asked} :
       \E answers \in IF asks THEN Answers ELSE {<<>>} :
       \E o \in {edit(got, last_n, edited_string, answers)} :
          /\ Effect(o)
          /\ last' = [op |-> "edit", n |-> last_n, arg |-> edited_string,
                      answers |-> answers, before |-> journal_file, o |-> o]

Delete(last_n) ==
    /\ Start
    /\ \E got \in {read(journal_file, None)} :
       \E answers \in [1..Len(Sliced(got, last_n)) -> Answers] :
       \E o \in {delete(got, last_n, answers)} :
          /\ Effect(o)
          /\ last' = [op |-> "delete", n |-> last_n, answers |-> answers,
                      before |-> journal_file, o |-> o]

Compose(entry_string) ==
    /\ Start
    /\ Count < MaxEntries
    /\ \E parsed \in {None, Some(Jan)}, now \in {FebNow} :
       \E o \in {compose(journal_file, entry_string, parsed, now)} :
          /\ Effect(o)
          /\ last' = [op |-> "compose", arg |-> entry_string,
                      before |-> journal_file, o |-> o]

\* the command returns, or the process exits
Return ==
    /\ last # Idle
    /\ last' = Idle
    /\ UNCHANGED <<path_exists, first_line, journal_file>>

Next ==
    \/ \E entry \in JournalEntries : Add(entry)
    \/ \E last_n \in LastNs : Read(last_n)
    \/ \E last_n \in LastNs : Edit(last_n)
    \/ \E last_n \in LastNs : Delete(last_n)
    \/ Return

Spec == Init /\ [][Next]_vars

\* the journal under Journal.add alone
NextAdd ==
    \/ \E entry \in AddEntries : Add(entry)
    \/ Return

SpecAdd == Init /\ [][NextAdd]_vars

\* the codec on its own: an entry, or a list of entries, is serialized and the text
\* deserialized again
SerializeEntry(entry) ==
    /\ Start
    /\ UNCHANGED <<path_exists, first_line, journal_file>>
    /\ \E text \in {serialize_entry(entry)} :
          last' = [op |-> "serialize_entry", arg |-> entry, text |-> text,
                   o |-> deserialize_entry(text)]

Serialize(entries) ==
    /\ Start
    /\ UNCHANGED <<path_exists, first_line, journal_file>>
    /\ \E text \in {serialize(entries)} :
          last' = [op |-> "serialize", arg |-> entries, text |-> text,
                   o |-> ConsumeAll(deserialize(text))]

NextCodec ==
    \/ \E entry \in CodecEntries : SerializeEntry(entry)
    \/ \E entries \in SeqsUpTo(CodecEntries, MaxSerialized) : Serialize(entries)
    \/ Return

SpecCodec == Init /\ [][NextCodec]_vars

\* the parts entry texts are put together of: a date or what stands in its place,
\* the separator or what stands in its place, a title, and a body after the
\* title line
ValidDate == strftime(Jan)
InvalidDates ==
    { <<>>,
      strftime(DateTime(2019, 30, 1, 9, 30, 0)),
      strftime(DateTime(2019, 2, 30, 9, 30, 0)),
      Upto(ValidDate, 10),
      strftime(DateTime(2019, 1, 1, 25, 30, 0)),
      strftime(DateTime(2019, 1, 1, 9, 60, 0)) }
Separator == <<SP, "-", SP>>
Separators == {Separator, <<SP, SP, SP>>, <<>>}
TitleTexts == {<<>>, <<SP>>, <<"a">>}
BodyTexts == {<<>>, <<NL, "b">>}

\* an entry text is handed to deserialize_entry
DeserializeEntry(date_str, sep, title, body) ==
    /\ Start
    /\ UNCHANGED <<path_exists, first_line, journal_file>>
    /\ \E text \in {entry_marker \o date_str \o sep \o title \o body} :
          last' = [op |-> "deserialize_entry", date_str |-> date_str, sep |-> sep,
                   title |-> title, body |-> body, text |-> text,
                   o |-> deserialize_entry(text)]

\* a journal text is split as JournalSerializer.deserialize splits it
SplitEntries(journal_text) ==
    /\ Start
    /\ UNCHANGED <<path_exists, first_line, journal_file>>
    /\ last' = [op |-> "split_entries", text |-> journal_text,
                o |-> [texts |-> split_entries(strip(journal_text))]]

NextDecode ==
    \/ \E date_str \in {ValidDate} \cup InvalidDates, sep \in Separators,
          title \in TitleTexts, body \in BodyTexts :
            DeserializeEntry(date_str, sep, title, body)
    \/ \E pre \in {<<>>} \cup Prefaces, j \in FoundJournals : SplitEntries(pre \o j)
    \/ Return

SpecDecode == Init /\ [][NextDecode]_vars

\* Journal.read of a journal file found on disk
InitFound ==
    /\ path_exists = TRUE
    /\ first_line = file_type_line
    /\ journal_file \in FoundJournals
    /\ last = Idle

NextRead ==
    \/ \E last_n \in LastNs : Read(last_n)
    \/ Return

\* the operations of Journal on a journal file found on disk
SpecFound == InitFound /\ [][Next]_vars

SpecRead == InitFound /\ [][NextRead]_vars

\* journal files as they are found, also with text before the first entry and
\* with text and no entry at all
InitPrefaced ==
    /\ path_exists = TRUE
    /\ first_line = file_type_line
    /\ journal_file \in
          FoundJournals \cup {pre \o j : pre \in Prefaces, j \in FoundJournals}
    /\ last = Idle

SpecReadPrefaced == InitPrefaced /\ [][NextRead]_vars

\* the compose command, and reading what it saved
NextCompose ==
    \/ \E entry_string \in ComposeTexts : Compose(entry_string)
    \/ \E last_n \in LastNs : Read(last_n)
    \/ Return

SpecCompose == Init /\ [][NextCompose]_vars

\* Journal.write step by step, as Journal.add runs it:
\*     with self.path.open("w") as fp:                  the file is truncated
\*         fp.write(f"file_type: {self.file_type}\n")   into the buffer of fp
\*         fp.write(self.serializer.serialize(entries)) into the buffer of fp
\*                                                      leaving: flush and close
\* While it runs, `last` holds the entries to write, what fp has buffered and the
\* file as it was. An exception raised inside the with block (KeyboardInterrupt, or
\* an error of serialize) closes fp, which flushes the buffer; a process that is
\* killed loses the buffer.
Writing(pc) == last.op = "write" /\ last.pc = pc

\* the buffer reaches the file
Flush(buffer) ==
    /\ first_line' = (IF Len(buffer) >= 1 THEN file_type_line ELSE <<>>)
    /\ journal_file' = (IF Len(buffer) >= 2 THEN buffer[2] ELSE <<>>)
    /\ UNCHANGED path_exists

\* Journal.add up to self.path.open("w")
AddOpen(entry) ==
    /\ Start
    /\ Count < MaxEntries
    /\ \E o \in {add(journal_file, entry)} :
          /\ o.status = "ok"
          /\ first_line' = <<>>
          /\ journal_file' = <<>>
          /\ UNCHANGED path_exists
          /\ last' = [op |-> "write", pc |-> "opened", arg |-> entry,
                      entries |-> o.out, buffer |-> <<>>,
                      before |-> journal_file, first_before |-> first_line]

WriteFileType ==
    /\ Writing("opened")
    /\ last' = [last EXCEPT !.pc = "file_type", !.buffer = <<file_type_line>>]
    /\ UNCHANGED <<path_exists, first_line, journal_file>>

WriteEntries ==
    /\ Writing("file_type")
    /\ last' = [last EXCEPT !.pc = "entries",
                            !.buffer = @ \o <<serialize(last.entries)>>]
    /\ UNCHANGED <<path_exists, first_line, journal_file>>

Close ==
    /\ Writing("entries")
    /\ Flush(last.buffer)
    /\ last' = [last EXCEPT !.pc = "closed"]

Interrupt ==
    /\ last.op = "write"
    /\ last.pc \in {"opened", "file_type", "entries"}
    /\ Flush(last.buffer)
    /\ last' = [last EXCEPT !.pc = "interrupted"]

Kill ==
    /\ last.op = "write"
    /\ last.pc \in {"opened", "file_type", "entries"}
    /\ last' = [last EXCEPT !.pc = "killed"]
    /\ UNCHANGED <<path_exists, first_line, journal_file>>

\* the process has ended, one way or the other
Ended ==
    /\ last.op = "write"
    /\ last.pc \in {"closed", "interrupted", "killed"}
    /\ last' = Idle
    /\ UNCHANGED <<path_exists, first_line, journal_file>>

NextWrite ==
    \/ \E entry \in JournalEntries : AddOpen(entry)
    \/ WriteFileType
    \/ WriteEntries
    \/ Close
    \/ Interrupt
    \/ Kill
    \/ Ended

SpecWrite == Init /\ [][NextWrite]_vars

\* Two processes on the same journal file. Each runs one command that reads the
\* file, computes the entries and writes them: Journal.add of an entry, or
\* Journal.delete(1) with the prompt answered y. Between self.read() and
\* self.write() of one process the other may run; nothing in Journal locks the
\* file or looks at it again before it writes. While they run, `last` holds
\* where each process stands and the order of their reads and writes.
Procs == {1, 2}

Commands ==
    {[op |-> "add", entry |-> entry] : entry \in JournalEntries}
        \cup {[op |-> "delete"]}

\* what the command makes of the journal text it read
Modified(cmd, text) ==
    IF cmd.op = "add" THEN add(text, cmd.entry)
    ELSE delete(read(text, None), Some(1), <<(<<"y">>)>>)

Fork ==
    /\ Start
    /\ last' = [op |-> "processes", proc |-> [p \in Procs |-> [pc |-> "start"]],
                events |-> <<>>]
    /\ UNCHANGED <<path_exists, first_line, journal_file>>

\* entries = list(self.read()) and what the command computes of them
ProcRead(p, cmd) ==
    /\ last.op = "processes"
    /\ last.proc[p].pc = "start"
    /\ cmd.op = "add" => Count < MaxEntries
    /\ \E o \in {Modified(cmd, journal_file)} :
          /\ o.status = "ok"
          /\ last' = [last EXCEPT
                        !.proc[p] = [pc |-> "read", cmd |-> cmd,
                                     found |-> journal_file, out |-> o.out],
                        !.events = Append(@, <<p, "read">>)]
    /\ UNCHANGED <<path_exists, first_line, journal_file>>

\* a write that looks at the file again and, where it has changed since the read,
\* computes the entries anew
WriteChecked(p) ==
    /\ last.op = "processes"
    /\ last.proc[p].pc = "read"
    /\ Write(IF journal_file = last.proc[p].found THEN last.proc[p].out
             ELSE Modified(last.proc[p].cmd, journal_file).out)
    /\ last' = [last EXCEPT !.proc[p].pc = "written",
                            !.events = Append(@, <<p, "write">>)]

\* self.write(entries)
ProcWrite(p) ==
    /\ last.op = "processes"
    /\ last.proc[p].pc = "read"
    /\ Write(last.proc[p].out)
    /\ last' = [last EXCEPT !.proc[p].pc = "written",
                            !.events = Append(@, <<p, "write">>)]

\* both processes have ended
Joined ==
    /\ last.op = "processes"
    /\ \A p \in Procs : last.proc[p].pc = "written"
    /\ last' = Idle
    /\ UNCHANGED <<path_exists, first_line, journal_file>>

NextProcs ==
    \/ Fork
    \/ \E p \in Procs, cmd \in Commands : ProcRead(p, cmd)
    \/ \E p \in Procs : ProcWrite(p)
    \/ Joined

SpecProcs == Init /\ [][NextProcs]_vars

\* parse_entry on its own, on texts with and without a date in front of the
\* title, and a date parser that knows some of the strings
ParseTexts ==
    { <<"t", ":", SP, "a">>,
      <<SP, "t", ":", SP, "a">>,
      <<"t", ":", SP, "a", ".", SP, "b">>,
      <<"t", ":", SP, "a", NL, "b", SP>>,
      <<"x", ":", SP, "a">>,
      <<"a", ":", SP, "t">>,
      <<"a">>,
      <<"a", ".", SP, "t", ":", SP, "b">>,
      <<":", SP, "a">>,
      <<"a", ":", SP>>,
      <<"t", ":", "a">>,
      <<"t", ":", SP, "x", ":", SP, "a">>,
      <<NL, "t", ":", SP, "a">>,
      <<"x", SP, "t", ":", SP, "a", "!", SP, SP, "b", NL>> }

DateStrings == {<<"t">>, <<"x">>, <<"x", SP, "t">>}

ParseEntry(text, known) ==
    /\ Start
    /\ UNCHANGED <<path_exists, first_line, journal_file>>
    /\ \E handed \in {date_string(text)}, now \in {FebNow} :
          last' = [op |-> "parse_entry", text |-> text, known |-> known,
                   handed |-> handed, now |-> now,
                   o |-> parse_entry(text,
                                     IF handed = None THEN None
                                     ELSE parse_datetime(handed[1], known),
                                     now)]

NextParse ==
    \/ \E text \in ParseTexts, known \in SUBSET DateStrings :
          ParseEntry(text, known)
    \/ Return

SpecParse == Init /\ [][NextParse]_vars

\* the words of a command line: help and version flags, subcommands, numbers of
\* entries, a journal name
ArgWords ==
    HelpFlags \cup
    { <<"-", "V">>, <<"r", "e", "a", "d">>, <<"l", "i", "s", "t">>,
      <<"-", "5">>, <<"-", "1", "2">>, <<"j">> }

PrepareArgs(args) ==
    /\ Start
    /\ UNCHANGED <<path_exists, first_line, journal_file>>
    /\ last' = [op |-> "prepare_args", arg |-> args, o |-> prepare_args(args)]

NextArgs ==
    \/ \E args \in SeqsUpTo(ArgWords, MaxArgs) : PrepareArgs(args)
    \/ Return

SpecArgs == Init /\ [][NextArgs]_vars

\* The import command. File types are the names the serializers are registered
\* under; "" stands for the None of a file type that is not given or not found.
\* A journal file that carries a type has it in its first line.
MarkerLine ==
    [md |-> file_type_line,
     x |-> Upto(file_type_line, 11) \o <<"x">>,
     y |-> Upto(file_type_line, 11) \o <<"y">>]

\* available_serializers(config.pluginmanager): markdown and one plugin
file_type_options == {"md", "x"}

\* type_from_path = file_type_from_path(path), None after its UsageError
type_from_path(line) ==
    LET Named(types) == IF types = {} THEN "" ELSE CHOOSE t \in types : TRUE
    IN  Named({t \in DOMAIN MarkerLine : MarkerLine[t] = line})

\* import_journal(config, path, file_type) of a journal file with this first line
\* and this text after it, without --move: how it ends, whether it warned, and
\* the file type it validated and read the journal with. `readable` says whether
\* the plugin serializer can read the journal.
import_journal(line, text, file_type, answers, readable) ==
    LET Checked(found, used) ==
            IF used \notin file_type_options
            THEN [status |-> "UsageError", warned |-> FALSE, file_type |-> used]
            ELSE IF (IF used = "md"
                     THEN IsError(read(text, Some(1)))
                            \/ read(text, Some(1)) = [entries |-> <<>>]
                     ELSE ~readable)
            THEN [status |-> "unreadable", warned |-> FALSE, file_type |-> used]
            ELSE [status |-> "ok", warned |-> FALSE, file_type |-> used]
        Typed(found, given) ==
            \* ask returns no blank answer when it has options: it asks again
            IF found = "" /\ given = ""
            THEN [status |-> "asking", warned |-> FALSE, file_type |-> ""]
            ELSE [Checked(found, IF given # "" THEN given ELSE found)
                    EXCEPT !.warned = given # "" /\ found # "" /\ found # given]
        Asked(found) ==
            Typed(found, IF found = "" /\ file_type = ""
                         THEN ask(answers, file_type_options, "")
                         ELSE file_type)
    IN  Asked(type_from_path(line))

\* the import of the journal file; a file without a type gets the type marker
\* written in front of its text
ImportJournal(file_type, answers, readable) ==
    /\ Start
    /\ \E o \in {import_journal(first_line, journal_file, file_type, answers,
                                 readable)} :
          /\ last' = [op |-> "import", file_type |-> file_type,
                      found |-> type_from_path(first_line),
                      before |-> journal_file, o |-> o]
          /\ IF o.status = "ok" /\ type_from_path(first_line) = ""
             THEN /\ first_line' = MarkerLine[o.file_type]
                  /\ journal_file' = first_line \o <<NL>> \o journal_file
             ELSE UNCHANGED <<first_line, journal_file>>
    /\ UNCHANGED path_exists

\* journal files to import: with the type of a serializer in the first line, with
\* a type nobody supports, or with an empty first line
InitImport ==
    /\ path_exists = TRUE
    /\ first_line \in {MarkerLine[t] : t \in DOMAIN MarkerLine} \cup {<<>>}
    /\ journal_file \in FoundJournals
    /\ last = Idle

NextImport ==
    \/ \E file_type \in {"", "md", "x", "y"}, answers \in {<<"">>, <<"md">>},
          readable \in BOOLEAN : ImportJournal(file_type, answers, readable)
    \/ Return

SpecImport == InitImport /\ [][NextImport]_vars

\* ask, answer by answer. A prompt is one of: options with or without a default
\* among them, a validator with or without a default, neither.
Prompts ==
    {[options |-> {"y", "n"}, default |-> d, validator |-> None] :
        d \in {"", "y", "n"}}
    \cup {[options |-> {}, default |-> d, validator |-> Some({"bar"})] :
             d \in {"", "bar", "foo"}}
    \cup {[options |-> {}, default |-> "", validator |-> None]}

TypedAnswers == {"", "y", "n", "foo", "bar"}

\* ask(prompt, options, default, validator) is called
AskPrompt(prompt) ==
    /\ Start
    /\ UNCHANGED <<path_exists, first_line, journal_file>>
    /\ last' = [op |-> "ask", prompt |-> prompt, typed |-> <<>>, reprompts |-> 0,
                returned |-> None]

\* answer = input_err(prompt) or default: returned when it is valid, and asked
\* for again when it is not
AskInput(typed) ==
    /\ last.op = "ask"
    /\ last.returned = None
    /\ Len(last.typed) < MaxTyped
    /\ UNCHANGED <<path_exists, first_line, journal_file>>
    /\ \E answer \in {IF typed = "" THEN last.prompt.default ELSE typed} :
          IF validate(answer, last.prompt.options, last.prompt.validator)
          THEN last' = [last EXCEPT !.typed = Append(@, typed),
                                    !.returned = Some(answer)]
          ELSE last' = [last EXCEPT !.typed = Append(@, typed),
                                    !.reprompts = @ + 1]

NextAsk ==
    \/ \E prompt \in Prompts : AskPrompt(prompt)
    \/ \E typed \in TypedAnswers : AskInput(typed)
    \/ Return

SpecAsk == Init /\ [][NextAsk]_vars

\* Opening a journal. The file type a caller passes: none, as Journal.from_name
\* does, or the one given to the import command.
NoFileType == <<>>
FileTypes == {NoFileType, <<"m", "d">>}

WordChars ==
    {"a", "b", "d", "e", "f", "i", "l", "m", "p", "t", "x", "y", "_", "-"}
        \cup DigitChars

\* Journal._get_file_type(path): path.open("r") of a file that is not there raises
\* FileNotFoundError; the first line has to match r"file_type:\s([\w\-_]*)"
get_file_type(exists, line) ==
    IF ~exists THEN [error |-> "FileNotFoundError"]
    ELSE IF /\ StartsAt(line, 1, Upto(file_type_line, 10))
            /\ Len(line) >= 11
            /\ line[11] \in Whitespace
         THEN [file_type |-> SubSeq(line, 12, RunEnd(line, 12, WordChars) - 1)]
         ELSE SerializationError

\* a constructor that creates the missing file before it asks
JournalCreatedUnasked(exists, line, file_type, answers) ==
    LET Made(type) ==
            IF IsError(type)
            THEN [status |-> type.error, code |-> 1, asked |-> FALSE,
                  exists |-> exists]
            ELSE IF exists
            THEN [status |-> "ok", code |-> 0, asked |-> FALSE, exists |-> TRUE]
            ELSE IF ~yes_no(answers, TRUE)
            THEN [status |-> "exit", code |-> 0, asked |-> TRUE, exists |-> TRUE]
            ELSE [status |-> "ok", code |-> 0, asked |-> TRUE, exists |-> TRUE]
    IN  Made(IF file_type # NoFileType THEN [file_type |-> file_type]
             ELSE get_file_type(exists, line))

\* Journal.__init__(path, pluginmanager, file_type): how the constructor ends, the
\* exit code of the process where it ends the process, whether the user was asked
\* and whether the file exists afterwards. self.file_type is settled first, from
\* the file when none is passed, and only then is path.exists() looked at.
Journal(exists, line, file_type, answers) ==
    LET Made(type) ==
            IF IsError(type)
            THEN [status |-> type.error, code |-> 1, asked |-> FALSE,
                  exists |-> exists]
            ELSE IF exists
            THEN [status |-> "ok", code |-> 0, asked |-> FALSE, exists |-> TRUE]
            ELSE IF ~yes_no(answers, TRUE)
            THEN [status |-> "exit", code |-> 0, asked |-> TRUE, exists |-> FALSE]
            ELSE [status |-> "ok", code |-> 0, asked |-> TRUE, exists |-> TRUE]
    IN  Made(IF file_type # NoFileType THEN [file_type |-> file_type]
             ELSE get_file_type(exists, line))

\* a journal is opened; _create touches the file and writes nothing into it
Open(file_type, answers) ==
    /\ last = Idle
    /\ \E o \in {Journal(path_exists, first_line, file_type, answers)} :
          /\ path_exists' = o.exists
          /\ last' = [op |-> "open", file_type |-> file_type, answers |-> answers,
                      existed |-> path_exists, o |-> o]
    /\ UNCHANGED <<first_line, journal_file>>

\* the journal file as it is found: missing, or there with or without its first line
InitOpen ==
    /\ path_exists \in BOOLEAN
    /\ first_line \in (IF path_exists THEN {file_type_line, <<>>} ELSE {<<>>})
    /\ journal_file \in (IF path_exists THEN FoundJournals ELSE {<<>>})
    /\ last = Idle

NextOpen ==
    \/ \E file_type \in FileTypes, answers \in Answers : Open(file_type, answers)
    \/ Return

SpecOpen == InitOpen /\ [][NextOpen]_vars


----------------------------------------------------------------------------
(* What the claims speak of *)

\* the entries of a journal text in the order in which the text holds them, each
\* the Entry its text deserializes to
FileOrder(text) ==
    LET Each(texts) == list([i \in 1..Len(texts) |-> deserialize_entry(texts[i])])
    IN  Each(split_entries(strip(text)))

\* what Journal.read() returns of the journal file as it is now, and as the last
\* command found it
Stored == read(journal_file, None).entries
Found == read(last.before, None).entries

AtMinute(entry) == [entry EXCEPT !.date = Minute(entry.date)]

DatesOf(entries) == [i \in 1..Len(entries) |-> entries[i].date]

\* newest first, and oldest first
NonIncreasing(entries) ==
    \A i \in 1..(Len(entries) - 1) : ~DateLess(entries[i].date, entries[i + 1].date)
NonDecreasing(entries) ==
    \A i \in 1..(Len(entries) - 1) : ~DateLess(entries[i + 1].date, entries[i].date)

\* a command that rewrote the journal file has just run
Rewrote == last.op \in {"add", "edit", "delete"} /\ last.o.status = "ok"

\* how many of the entries `found` last_n selects when it counts the most recent
\* ones: all for None, else last_n of them, as far as there are that many
Selected(found, last_n) ==
    IF last_n = None THEN Len(found) ELSE Min(last_n[1], Len(found))

\* FileOrder, Stored and Found are computed anew wherever they stand: a formula
\* that needs one of them more than once takes it as the argument of an operator

\* the entries after the first k of them
After(entries, k) == SubSeq(entries, k + 1, Len(entries))

----------------------------------------------------------------------------
(* C1. Starting from an empty journal, after any sequence of Journal.add with
   entries in any order of date, read() returns the entries newest first, and
   each add leaves what was stored as it was and in its order and puts the new
   entry, at minute precision, in once. *)
C1_AddKeepsEntriesSorted ==
    LET NewestFirst(got) == ~IsError(got) /\ NonIncreasing(got.entries)
        Inserted(found, stored) ==
            \E i \in 0..Len(found) :
                stored = Upto(found, i) \o <<AtMinute(last.arg)>> \o After(found, i)
    IN  /\ NewestFirst(read(journal_file, None))
        /\ last.op = "add" => last.o.status = "ok" /\ Inserted(Found, Stored)

\* an entry was added between an older and a newer one
C1_Witness ==
    /\ last.op = "add"
    /\ Len(Stored) = 3
    /\ Stored[2] = AtMinute(last.arg)
    /\ DateLess(Stored[3].date, Stored[2].date)
    /\ DateLess(Stored[2].date, Stored[1].date)

(* C2, as the specification states it: after every rewrite the file holds the
   entries newest first. *)
C2_FileNewestFirst == Rewrote => NonIncreasing(FileOrder(journal_file))

(* C2, amended. After every rewrite the file holds the entries in the reverse of
   the order in which read() returns them: the entries handed to Journal.write
   newest first stand in the file last to first. After an add or a delete on a
   journal that read() returned newest first, the file is oldest first. *)
C2_FileOldestFirst ==
    LET Reversed(in_file, written) ==
            /\ in_file = Reverse([i \in 1..Len(written) |-> AtMinute(written[i])])
            /\ last.op \in {"add", "delete"} /\ NonIncreasing(Found)
                  => NonDecreasing(in_file)
    IN  Rewrote => Reversed(FileOrder(journal_file), last.o.out)

\* 2020-02-01 was added to a journal of 2020-01-01 and 2020-03-01
C2_Witness ==
    /\ last.op = "add"
    /\ last.o.status = "ok"
    /\ Minute(last.arg.date) = Feb
    /\ DatesOf(Found) = <<Mar, Jan>>
    /\ DatesOf(FileOrder(journal_file)) = <<Jan, Feb, Mar>>

(* C3, as stated: serialize_entry then deserialize_entry gives back the entry,
   whatever its body. *)
C3_EntryRoundTrip == last.op = "serialize_entry" => last.o = last.arg

(* C4, as stated: serialize then deserialize gives back the entries, one for
   one and in their order. *)
C4_SequenceRoundTrip ==
    last.op = "serialize" => ~IsError(last.o) /\ last.o.entries = last.arg

(* C5. read(last_n) with last_n > 0 returns the first min(last_n, count) entries
   of what read(None) returns, read(None) returns all of them, last fragment of
   the file first, and the journal file is left as it was. *)
C5_ReadReturnsMostRecent ==
    LET MostRecent(found) ==
            /\ found = Reverse(FileOrder(last.before))
            /\ last.o.entries = Upto(found, Selected(found, last.n))
    IN  last.op = "read" /\ (last.n = None \/ last.n[1] > 0) =>
          /\ journal_file = last.before
          /\ last.o.status = "ok"
          /\ MostRecent(Found)

\* two of three entries were read
C5_Witness ==
    /\ last.op = "read"
    /\ last.n = Some(2)
    /\ Len(FileOrder(last.before)) = 3
    /\ Len(last.o.entries) = 2

(* C6. read(last_n = k) returns the k most recent entries whenever these k can
   be deserialized, whatever the older entries are like; it fails when one of
   the k cannot. *)
C6_ReadParsesOnlyWhatItReturns ==
    LET Returned(newest) ==
            IF \A i \in 1..Len(newest) : ~IsError(newest[i])
            THEN last.o.status = "ok" /\ last.o.entries = newest
            ELSE last.o.status = "SerializationError"
    IN  last.op = "read" /\ last.n # None /\ last.n[1] > 0 =>
          Returned(Upto(Reverse(FileOrder(last.before)), last.n[1]))

\* the two most recent of three entries were read, the oldest being unreadable
C6_Witness ==
    /\ last.op = "read"
    /\ last.n = Some(2)
    /\ last.o.status = "ok"
    /\ Len(FileOrder(last.before)) = 3
    /\ IsError(FileOrder(last.before)[1])

(* C7. delete(last_n) removes, of the last_n most recent entries (all of them
   for None), those whose prompt was answered y; a blank answer keeps the entry.
   All other entries are stored afterwards, as they were and in their order. *)
C7_DeleteRemovesConfirmed ==
    LET Remaining(found, k, kept) ==
            [j \in 1..Len(kept) |-> found[kept[j]]] \o After(found, k)
        Offered(found, k) ==
            IF found = <<>>
            THEN last.o.status = "empty" /\ journal_file = last.before
            ELSE /\ last.o.status = "ok"
                 /\ Stored = Remaining(found, k,
                        SortedSeq({i \in 1..k : last.answers[i] # <<"y">>}))
        Asked(found) ==
            Offered(found, Selected(found, last.n))
    IN  last.op = "delete" /\ (last.n = None \/ last.n[1] >= 0) => Asked(Found)

\* of three entries the two most recent were offered: one answered y, one blank
C7_Witness ==
    /\ last.op = "delete"
    /\ last.n = Some(2)
    /\ Len(Found) = 3
    /\ last.answers = <<(<<"y">>), (<<"">>)>>
    /\ Len(Stored) = 2

(* C8. edit(last_n) puts the entries deserialized from the editor's text in the
   place of the last_n most recent entries (all of them for None), at the
   newest end; the older entries follow them, as they were and in their
   order. *)
C8_EditReplacesMostRecent ==
    LET Replaced(found) ==
            Stored = ConsumeAll(deserialize(last.arg)).entries
                        \o After(found, Selected(found, last.n))
    IN  last.op = "edit" /\ last.o.status = "ok"
            /\ (last.n = None \/ last.n[1] >= 0) => Replaced(Found)

\* the newest of three entries came back from the editor with another date
C8_Witness ==
    /\ last.op = "edit"
    /\ last.n = Some(1)
    /\ last.o.status = "ok"
    /\ Len(Found) = 3
    /\ Len(Stored) = 3
    /\ Stored[1] # Found[1]
    /\ After(Stored, 1) = After(Found, 1)

(* C9. edit asks whether to continue exactly when the editor's text holds fewer
   entries than the editor was opened on. Answered n, the command ends and the
   journal file is as it was; answered y or left blank, the file is rewritten
   with the entries of the editor's text in place of those it was opened on. *)
C9_EditConfirmsDeletions ==
    LET Confirmed(found, given, edited) ==
            IF IsError(edited)
            THEN ~last.o.asked /\ last.o.status # "ok" /\ journal_file = last.before
            ELSE /\ last.o.asked <=> Len(edited.entries) < given
                 /\ last.o.asked /\ last.answers = <<"n">>
                      => last.o.status = "exit 0" /\ journal_file = last.before
                 /\ last.o.asked /\ last.answers \in {<<"y">>, <<"">>}
                      => /\ last.o.status = "ok"
                         /\ Stored = edited.entries \o After(found, given)
        \* `given` entries were handed to the editor
        Handed(got) ==
            ~IsError(got) =>
                Confirmed(got.entries, SliceLen(Len(got.entries), last.n),
                          ConsumeAll(deserialize(last.arg)))
    IN  last.op = "edit" => Handed(read(last.before, None))

\* an entry was taken out in the editor and the question left blank
C9_Witness ==
    /\ last.op = "edit"
    /\ last.o.asked
    /\ last.answers = <<"">>
    /\ last.o.status = "ok"
    /\ Len(Stored) < Len(Found)

(* C10, as stated: compose saves no entry whose title is empty after trimming:
   text that gives such a title ends compose with status 1 and nothing
   written. *)
C10_ComposeSavesOnlyTitled ==
    last.op = "compose" /\ last.o.status # "exit 1" =>
      strip(last.o.entry.title) # <<>>


\* the entry texts of a journal text in the order in which the text holds them,
\* without the empty lines between them
Fragments(text) ==
    LET Each(texts) == list([i \in 1..Len(texts) |-> rstrip(texts[i])])
    IN  Each(split_entries(strip(text)))

(* C11. When the text composed is empty, compose ends with status 1 and the
   journal file is as it was: nothing was added. When the text is not empty and
   the journal can be read, compose returns normally (status 0) and the file
   holds the entry texts it held, in their order, and the text of the parsed
   entry once among them. *)
C11_ComposeStatus ==
    LET AddedOnce(before, after, text) ==
            \E i \in 0..Len(before) :
                after = Upto(before, i) \o <<text>> \o After(before, i)
    IN  last.op = "compose" =>
          IF last.arg = <<>>
          THEN last.o.status = "exit 1" /\ journal_file = last.before
          ELSE ~IsError(read(last.before, None)) =>
                 /\ last.o.status = "ok"
                 /\ AddedOnce(Fragments(last.before), Fragments(journal_file),
                              rstrip(serialize_entry(last.o.entry)))

\* text was composed for a journal that holds an entry, and was saved
C11_Witness ==
    /\ last.op = "compose"
    /\ last.arg = <<"a", ".", SP, "b">>
    /\ last.o.status = "ok"
    /\ Len(Fragments(last.before)) = 1
    /\ Len(Fragments(journal_file)) = 2

(* C12, as stated: however a rewrite of the journal file ends, completed,
   interrupted or killed, the file holds what it held before or what was to be
   written, all of it. *)
C12_RewriteAllOrNothing ==
    last.op = "write" /\ last.pc \in {"closed", "interrupted", "killed"} =>
      \/ first_line = last.first_before /\ journal_file = last.before
      \/ first_line = file_type_line /\ journal_file = serialize(last.entries)

\* the position of an event in the order of the reads and writes, 0 when it has
\* not happened
EventAt(p, what) ==
    LET At(hits) == IF hits = {} THEN 0 ELSE CHOOSE i \in hits : TRUE
    IN  At({i \in 1..Len(last.events) : last.events[i] = <<p, what>>})

(* C13. Of two processes that run add or delete on the same journal file, the
   one that writes last wins: whatever the other did in between, the file is
   what the last writer computed from the text it had read itself, and an entry
   the other process added after that read is not in the file. *)
C13_LastWriterWins ==
    LET \* p wrote last; q is the other process
        Wins(p, q) ==
            /\ journal_file
                 = serialize(Modified(last.proc[p].cmd, last.proc[p].found).out)
            /\ /\ EventAt(q, "write") > EventAt(p, "read")
               /\ last.proc[q].cmd.op = "add"
               /\ last.proc[q].cmd # last.proc[p].cmd
               => \A i \in 1..Len(Stored) :
                     Stored[i] # AtMinute(last.proc[q].cmd.entry)
                        \/ \E j \in 1..Len(read(last.proc[p].found, None).entries) :
                              read(last.proc[p].found, None).entries[j] = Stored[i]
    IN  last.op = "processes" /\ last.events # <<>> =>
          \A p \in Procs : \A q \in Procs \ {p} :
              last.events[Len(last.events)] = <<p, "write">> => Wins(p, q)

\* both processes read the journal of one entry, each added an entry of its own,
\* and the file holds two entries, not three
C13_Witness ==
    /\ last.op = "processes"
    /\ last.events = <<(<<1, "read">>), (<<2, "read">>), (<<2, "write">>),
                       (<<1, "write">>)>>
    /\ last.proc[1].cmd.op = "add" /\ last.proc[2].cmd.op = "add"
    /\ last.proc[1].cmd # last.proc[2].cmd
    /\ Len(Fragments(last.proc[1].found)) = 1
    /\ Len(Fragments(journal_file)) = 2

(* C14. A journal opened at a path where no file exists: the user is asked whether
   to create it; on yes an empty journal file is there afterwards and the command
   goes on with an empty journal, on no there is no file and the process ends.
   Also when no file type is passed. *)
C14_MissingJournalOffered ==
    last.op = "open" /\ ~last.existed =>
      /\ last.o.asked
      /\ IF yes_no(last.answers, TRUE)
         THEN /\ last.o.status = "ok"
              /\ path_exists
              /\ journal_file = <<>>
              /\ read(journal_file, None) = [entries |-> <<>>]
         ELSE last.o.status = "exit" /\ ~path_exists

(* C15. The user declines the offer to create a missing journal: the process
   ends with a non-zero exit status and no journal file is created. *)
C15_DeclineExitsNonZero ==
    last.op = "open" /\ last.o.asked /\ ~yes_no(last.answers, TRUE) =>
      /\ last.o.status = "exit" /\ last.o.code # 0
      /\ ~path_exists

(* C15, as the program has it. The user declines the offer to create a missing
   journal: the process ends through sys.exit(0), exit status 0, and no journal
   file is created. *)
C15_DeclineExitsZero ==
    last.op = "open" /\ last.o.asked /\ ~yes_no(last.answers, TRUE) =>
      /\ last.o.status = "exit" /\ last.o.code = 0
      /\ ~path_exists

C15_Witness ==
    /\ last.op = "open"
    /\ ~last.existed
    /\ last.o.asked
    /\ last.answers = <<"n">>
    /\ last.o.status = "exit"

\* the entry texts Journal.read(last_n) has to make entries of, newest first
Requested(text, last_n) ==
    Upto(Reverse(Fragments(text)),
         IF last_n = None \/ last_n[1] = 0 THEN Len(Fragments(text))
         ELSE IF last_n[1] < 0 THEN 0 - last_n[1] ELSE last_n[1])

\* the journal text does not start with an entry marker
Prefaced(text) == strip(text) # <<>> /\ ~StartsAt(strip(text), 1, entry_marker)

(* C16. Journal.read on malformed content, a malformed entry among those it has
   to return or a journal text that does not start with an entry marker, fails
   with the error of the journal, which wraps the SerializationError of the
   serializer and names the journal; the journal file is left as it was. *)
C16_ReadRaisesJournalError ==
    LET Fails(got) ==
            /\ IsError(got)
            /\ got.names = "journal"
            /\ got.cause = SerializationError
        Malformed(texts) ==
            \E i \in 1..Len(texts) : IsError(deserialize_entry(texts[i]))
    IN  last.op = "read" =>
          /\ journal_file = last.before
          /\ Prefaced(last.before) \/ Malformed(Requested(last.before, last.n))
               => Fails(read(last.before, last.n))

(* C17. deserialize_entry raises SerializationError, and returns no Entry, for an
   entry text with nothing after the marker, without a date, with an empty title,
   without the ' - ' separator, with a date that is not in the calendar, with a
   date without a time, or with a time that is not a time of day. *)
C17_MalformedEntryTextsFail ==
    /\ last.op = "deserialize_entry"
    /\ \/ last.date_str \in InvalidDates
       \/ last.sep # Separator
       \/ last.title = <<>>
    => last.o = SerializationError

C17_Witness ==
    /\ last.op = "deserialize_entry"
    /\ last.date_str = ValidDate
    /\ last.sep = Separator
    /\ last.title = <<>>
    /\ last.body # <<>>
    /\ last.o = SerializationError

(* C18. deserialize_entry fails with SerializationError whenever the title is
   empty after trimming, also a title of spaces followed by a body; it never
   returns an Entry whose trimmed title is empty. *)
C18_BlankTitleFails ==
    last.op = "deserialize_entry" =>
      /\ strip(last.title) = <<>> => IsError(last.o)
      /\ ~IsError(last.o) => strip(last.o.title) # <<>>

(* C19. Splitting a journal text whose trimmed form does not begin with '## '
   fails with SerializationError: text before the first marker is not dropped,
   and a text without any marker is not read as an empty journal. *)
C19_SplitFailsWithoutMarker ==
    last.op = "split_entries" /\ Prefaced(last.text) => IsError(last.o)

\* the lines of an entry text after its title line, without the empty one that
\* the closing newline makes
BodyLinesOf(text) == SubSeq(SplitLines(text), 2, Len(SplitLines(text)) - 1)

(* C20. serialize_entry puts exactly one more '#' in front of every body line
   that starts with '#', k of them becoming k + 1, and writes every other body
   line as it is. *)
C20_EscapeAddsOneHash ==
    LET Escaped(lines, written) ==
            /\ Len(written) = Len(lines)
            /\ \A i \in 1..Len(lines) :
                  /\ LeadingHashes(written[i])
                       = (IF LeadingHashes(lines[i]) >= 1
                          THEN LeadingHashes(lines[i]) + 1 ELSE 0)
                  /\ LeadingHashes(lines[i]) = 0 => written[i] = lines[i]
    IN  last.op = "serialize_entry" /\ last.arg.body # <<>> =>
          Escaped(SplitLines(last.arg.body), BodyLinesOf(last.text))

(* C20, as the program has it. serialize_entry puts two more '#' in front of
   every body line that starts with '#', k of them becoming k + 2, and writes
   every other body line as it is. *)
C20_EscapeAddsTwoHashes ==
    LET Escaped(lines, written) ==
            /\ Len(written) = Len(lines)
            /\ \A i \in 1..Len(lines) :
                  /\ LeadingHashes(written[i])
                       = (IF LeadingHashes(lines[i]) >= 1
                          THEN LeadingHashes(lines[i]) + 2 ELSE 0)
                  /\ written[i]
                       = (IF LeadingHashes(lines[i]) >= 1
                          THEN <<"#", "#">> \o lines[i] ELSE lines[i])
    IN  last.op = "serialize_entry" /\ last.arg.body # <<>> =>
          Escaped(SplitLines(last.arg.body), BodyLinesOf(last.text))

\* the body 'x' and '###y' is written as 'x' and '#####y'
C20_Witness ==
    /\ last.op = "serialize_entry"
    /\ last.arg.body = <<"x", NL, "#", "#", "#", "y">>
    /\ BodyLinesOf(last.text) = <<(<<"x">>), (<<"#", "#", "#", "#", "#", "y">>)>>

(* C21. parse_entry without a date given: a title with ': ' after its first
   character has what stands before that ': ' handed to the date parser; when
   the parser makes a date of it, the date is used and the title is what follows
   the colon; otherwise the date is now and the title is the whole segment. The
   body is the trimmed text after the title separator. *)
C21_DatePrefixOfTitle ==
    LET Body(text, sep) == IF sep # -1 THEN strip(From(text, sep)) ELSE <<>>
        Parsed(title, prefix, date) ==
            /\ last.handed = prefix
            /\ IF date # None
               THEN /\ last.o.date = date[1]
                    /\ last.o.title = strip(From(title, Len(prefix[1]) + 1))
               ELSE /\ last.o.date = last.now
                    /\ last.o.title = title
        Handed(title, prefix) ==
            Parsed(title, prefix,
                   IF prefix = None THEN None
                   ELSE parse_datetime(prefix[1], last.known))
    IN  last.op = "parse_entry" =>
          /\ Handed(title_of(last.text), TitlePrefix(last.text))
          /\ last.o.body = Body(last.text, SepEnd(last.text))

\* the number of arguments of the form -<digits> among the first n
DashDigitsIn(args, n) == Cardinality({i \in 1..n : IsDashDigits(args[i])})

(* C22. prepare_args: every argument -<digits> is replaced by the pair -n,
   <digits> and the other arguments keep their order; with neither -h/--help
   among the arguments nor a subcommand in front, exactly one subcommand is put
   in front, compose when no argument starts with '-' and read otherwise; with
   a subcommand in front nothing is put in front. *)
C22_PrepareArgs ==
    LET \* rest is args with the pairs in place: argument i is found at
        \* i + the number of pairs before it
        Replaced(args, rest) ==
            /\ Len(rest) = Len(args) + DashDigitsIn(args, Len(args))
            /\ \A i \in 1..Len(args) :
                  IF IsDashDigits(args[i])
                  THEN /\ rest[i + DashDigitsIn(args, i - 1)] = <<"-", "n">>
                       /\ rest[i + DashDigitsIn(args, i - 1) + 1] = Tail(args[i])
                  ELSE rest[i + DashDigitsIn(args, i - 1)] = args[i]
        Dashed(args) == \E i \in 1..Len(args) : args[i][1] = "-"
        Prepared(args, out) ==
            IF args # <<>> /\ args[1] \in commands THEN Replaced(args, out)
            ELSE IF \E i \in 1..Len(args) : args[i] \in HelpFlags THEN TRUE
            ELSE /\ out # <<>>
                 /\ out[1] = (IF Dashed(args) THEN <<"r", "e", "a", "d">>
                              ELSE <<"c", "o", "m", "p", "o", "s", "e">>)
                 /\ Replaced(args, Tail(out))
    IN  last.op = "prepare_args" => Prepared(last.arg, last.o)

\* pen j -5 becomes pen read j -n 5
C22_Witness ==
    /\ last.op = "prepare_args"
    /\ last.arg = <<(<<"j">>), (<<"-", "5">>)>>
    /\ last.o = <<(<<"r", "e", "a", "d">>), (<<"j">>), (<<"-", "n">>), (<<"5">>)>>

(* C30. The version flag as the only argument is left as it is by prepare_args:
   no subcommand is put in front of it, and the top-level parser prints the
   version. *)
C30_VersionFlagStaysFirst ==
    last.op = "prepare_args" /\ last.arg = <<(<<"-", "V">>)>> => last.o = last.arg

(* C23. A journal file with a file_type marker that differs from the file type
   given with --file-type: import_journal warns, and validates and reads the
   journal with the file type found in the file, not with the one given. *)
C23_ImportUsesTypeOfFile ==
    /\ last.op = "import"
    /\ last.found # "" /\ last.file_type # "" /\ last.found # last.file_type
    => last.o.warned /\ last.o.file_type = last.found

\* an answer as ask takes it: the default for a blank one
Taken(typed, default) == IF typed = "" THEN default ELSE typed

\* what the prompt accepts: its options, or what its validator accepts
Accepted(prompt) ==
    IF prompt.options # {} THEN prompt.options ELSE prompt.validator[1]

(* C24. ask with options, or with a validator, returns the first answer typed
   that is accepted once a blank answer is replaced by the default; every
   answer before it was rejected and asked for again; nothing outside the
   options is returned, and ask returns with the first valid answer. yes_no is
   ask with the options y and n. *)
C24_AskReturnsFirstValid ==
    LET Rejected(prompt, typed) ==
            \A i \in 1..Len(typed) :
                Taken(typed[i], prompt.default) \notin Accepted(prompt)
        Asking(prompt, typed) ==
            IF last.returned = None
            THEN Rejected(prompt, typed) /\ last.reprompts = Len(typed)
            ELSE /\ typed # <<>>
                 /\ last.returned[1] = Taken(typed[Len(typed)], prompt.default)
                 /\ last.returned[1] \in Accepted(prompt)
                 /\ Rejected(prompt, Upto(typed, Len(typed) - 1))
                 /\ last.reprompts = Len(typed) - 1
                 /\ prompt.options # {} =>
                       /\ ask(typed, prompt.options, prompt.default)
                            = last.returned[1]
                       /\ prompt.options = {"y", "n"} /\ prompt.default # "" =>
                            (yes_no(typed, prompt.default = "y")
                               <=> last.returned[1] = "y")
    IN  /\ last.op = "ask"
        /\ last.prompt.options # {} \/ last.prompt.validator # None
        => Asking(last.prompt, last.typed)

\* foo and a blank answer, with no default, are rejected, y is returned
C24_Witness ==
    /\ last.op = "ask"
    /\ last.prompt = [options |-> {"y", "n"}, default |-> "", validator |-> None]
    /\ last.typed = <<"foo", "", "y">>
    /\ last.returned = Some("y")
    /\ last.reprompts = 2

(* C25. Starting from an empty journal, after any sequence of add, edit and
   delete, read() returns the stored entries newest first, also after an edit in
   which the date of an entry was changed or the entries were put in another
   order. *)
C25_ReadNewestFirstAlways ==
    LET NewestFirst(got) == ~IsError(got) /\ NonIncreasing(got.entries)
    IN  NewestFirst(read(journal_file, None))

(* C26. For every last_n, None, zero, positive or negative, Journal.edit(last_n)
   and Journal.delete(last_n) work on exactly the entries Journal.read(last_n)
   returns. *)
C26_EditAndDeleteWorkOnWhatReadReturns ==
    LET Same(worked_on, got) == worked_on = got.entries
    IN  /\ last.op = "edit" /\ last.o.status \in {"ok", "exit 0"}
            => Same(last.o.given, read(last.before, last.n))
        /\ last.op = "delete" /\ last.o.status = "ok"
            => Same(last.o.asked, read(last.before, last.n))

(* C27. When the journal file cannot be deserialized in full, add, edit and
   delete raise before anything is written; when the text the editor hands back
   cannot be deserialized, edit raises before anything is written. The journal
   file is then what it was before the operation. *)
C27_ErrorsLeaveJournalUnchanged ==
    LET Raised == last.o.status = "SerializationError" /\ journal_file = last.before
    IN  /\ last.op \in {"add", "edit", "delete"} /\ IsError(read(last.before, None))
            => Raised
        /\ last.op = "edit" /\ IsError(ConsumeAll(deserialize(last.arg)))
            => Raised

\* the editor was opened on a readable journal of two entries and handed back a
\* text with an entry nobody can read
C27_Witness ==
    /\ last.op = "edit"
    /\ ~IsError(read(last.before, None))
    /\ Len(read(last.before, None).entries) = 2
    /\ IsError(ConsumeAll(deserialize(last.arg)))
    /\ last.o.status = "SerializationError"
    /\ journal_file = last.before

(* C28. A journal file that exists after a Journal was constructed begins with a
   'file_type: <identifier>' line: a journal created in one command can be
   opened again by name, without a file type given, in the next one. *)
C28_CreatedJournalOpensAgain ==
    last.op = "open" /\ ~last.existed /\ path_exists =>
      /\ ~IsError(get_file_type(path_exists, first_line))
      /\ Journal(path_exists, first_line, NoFileType, <<"y">>).status = "ok"

(* C29. In the text serialize makes of entries whose titles hold no newline, the
   only lines that begin with '## ' are the title lines of the entries:
   split_entries gives one entry text for each entry, and no line of a body is
   taken for the start of an entry. *)
C29_OnlyTitleLinesAreMarkers ==
    LET OneEach(written, texts) ==
            /\ Len(texts) = Len(written)
            /\ \A i \in 1..Len(written) :
                  texts[i] = rstrip(serialize_entry(written[i]))
    IN  last.op = "serialize" =>
          /\ Cardinality(MarkerPositions(last.text)) = Len(last.arg)
          /\ OneEach(Reverse(last.arg), Fragments(last.text))

\* two entries whose bodies begin with '## ' and with '#'
C29_Witness ==
    /\ last.op = "serialize"
    /\ Len(last.arg) = 2
    /\ last.arg[1].body = <<"#", "#", SP, "x">>
    /\ last.arg[2].body = <<"#">>
    /\ Len(Fragments(last.text)) = 2

====
